---- MODULE Spec2Model ----
(***************************************************************************)
(* ht.conduction: seven conversion functions on Python floats.             *)
(*                                                                         *)
(* A Python float is an IEEE-754 binary64 number.  TLC's integers are 32   *)
(* bits wide, so significands are kept as little-endian sequences of       *)
(* 15-bit limbs and every arithmetic operation of the source is computed   *)
(* exactly and then rounded to nearest, ties to even, as the hardware      *)
(* does.  A value of the model therefore is bit for bit the value the      *)
(* interpreter computes.                                                   *)
(***************************************************************************)
EXTENDS Integers, Sequences, FiniteSets, TLC

(***************************************************************************)
(* Natural numbers of arbitrary size: <<l1, ..., ln>> is the number        *)
(* l1 + l2*Base + ... ; no leading zero limb, so <<>> is 0 and equal       *)
(* numbers are equal sequences.                                            *)
(***************************************************************************)
LimbBits == 15

Base == 2^LimbBits

Limb(a, i) == IF i <= Len(a) THEN a[i] ELSE 0

\* a without its leading zero limbs
RECURSIVE BTrim(_)
BTrim(a) ==
    IF a = <<>> THEN a
    ELSE IF a[Len(a)] = 0 THEN BTrim(SubSeq(a, 1, Len(a) - 1))
    ELSE a

\* a natural number below 2^31
BOfNat(n) == BTrim(<<n % Base, (n \div Base) % Base, n \div (Base * Base)>>)

\* the limbs i.. of a + b + c, c the carry into limb i
RECURSIVE BAddC(_, _, _, _)
BAddC(a, b, i, c) ==
    IF i > Len(a) /\ i > Len(b)
    THEN (IF c = 0 THEN <<>> ELSE <<c>>)
    ELSE LET s == Limb(a, i) + Limb(b, i) + c
         IN  <<s % Base>> \o BAddC(a, b, i + 1, s \div Base)

BAdd(a, b) == IF b = <<>> THEN a ELSE IF a = <<>> THEN b ELSE BAddC(a, b, 1, 0)

\* the limbs i.. of a - b - br for a >= b, br the borrow from limb i
RECURSIVE BSubC(_, _, _, _)
BSubC(a, b, i, br) ==
    IF i > Len(a) THEN <<>>
    ELSE LET d == a[i] - Limb(b, i) - br
         IN  IF d < 0 THEN <<d + Base>> \o BSubC(a, b, i + 1, 1)
             ELSE <<d>> \o BSubC(a, b, i + 1, 0)

BSub(a, b) == IF b = <<>> THEN a ELSE BTrim(BSubC(a, b, 1, 0))

RECURSIVE BCmpFrom(_, _, _)
BCmpFrom(a, b, i) ==
    IF i = 0 THEN 0
    ELSE IF a[i] > b[i] THEN 1
    ELSE IF a[i] < b[i] THEN -1
    ELSE BCmpFrom(a, b, i - 1)

\* -1, 0 or 1 as a < b, a = b, a > b
BCmp(a, b) ==
    IF Len(a) > Len(b) THEN 1
    ELSE IF Len(a) < Len(b) THEN -1
    ELSE BCmpFrom(a, b, Len(a))

\* the limbs i.. of a * k + c for 0 <= k < Base
RECURSIVE BMulSmallC(_, _, _, _)
BMulSmallC(a, k, i, c) ==
    IF i > Len(a)
    THEN (IF c = 0 THEN <<>> ELSE <<c>>)
    ELSE LET s == a[i] * k + c
         IN  <<s % Base>> \o BMulSmallC(a, k, i + 1, s \div Base)

BMulSmall(a, k) ==
    IF k = 0 \/ a = <<>> THEN <<>> ELSE BMulSmallC(a, k, 1, 0)

BShlLimbs(a, n) == IF a = <<>> THEN a ELSE [i \in 1..n |-> 0] \o a

\* a * (the limbs i.. of b)
RECURSIVE BMulFrom(_, _, _)
BMulFrom(a, b, i) ==
    IF i > Len(b) THEN <<>>
    ELSE LET rest == BMulFrom(a, b, i + 1)
         IN  IF rest = <<>> THEN BMulSmall(a, b[i])
             ELSE BAdd(BMulSmall(a, b[i]), BShlLimbs(rest, 1))

BMul(a, b) == IF a = <<>> THEN <<>> ELSE BMulFrom(a, b, 1)

\* a * 2^n
BShl(a, n) == BShlLimbs(BMulSmall(a, 2^(n % LimbBits)), n \div LimbBits)

\* floor(a / 2^n)
BShr(a, n) ==
    LET q == n \div LimbBits
        r == n % LimbBits
    IN  BTrim([i \in 1..(Len(a) - q) |->
                  a[i + q] \div 2^r
                  + (Limb(a, i + q + 1) % 2^r) * 2^(LimbBits - r)])

\* the number of bits of n < Base
BitLenSmall(n) ==
    CHOOSE k \in 0..LimbBits : n < 2^k /\ (k = 0 \/ n >= 2^(k - 1))

BBitLen(a) ==
    IF a = <<>> THEN 0
    ELSE LimbBits * (Len(a) - 1) + BitLenSmall(a[Len(a)])

\* bit i of a, bit 0 the lowest
BBit(a, i) == (Limb(a, i \div LimbBits + 1) \div 2^(i % LimbBits)) % 2

\* a mod 2^n = 0
BLowZero(a, n) ==
    /\ \A i \in 1..(n \div LimbBits) : Limb(a, i) = 0
    /\ Limb(a, n \div LimbBits + 1) % 2^(n % LimbBits) = 0

\* The quotient digit floor(r / d) for r < d * Base, d with its top limb at
\* least Base / 2: the estimate q from the top limbs is at most two too
\* large (Knuth, TAOCP 4.3.1, Theorem B)
RECURSIVE DivDigit(_, _, _)
DivDigit(r, d, q) ==
    IF BCmp(BMulSmall(d, q), r) > 0 THEN DivDigit(r, d, q - 1) ELSE q

\* The estimate of a quotient digit from the two top limbs of the remainder
\* and the top limb dl of the divisor
EstimateTop(top, dl) == IF top \div dl >= Base THEN Base - 1 ELSE top \div dl

Estimate(r, d) ==
    EstimateTop(Limb(r, Len(d) + 1) * Base + Limb(r, Len(d)), d[Len(d)])

\* One step of long division: the quotient's limbs qs so far, the remainder
\* r before the step, the quotient digit q
DivLimbQ(d, qs, r, q) == << <<q>> \o qs, BSub(r, BMulSmall(d, q)) >>

DivLimbEst(d, qs, r, est) ==
    IF est = 0 THEN << <<0>> \o qs, r >>
    ELSE DivLimbQ(d, qs, r, DivDigit(r, d, est))

\* The step that brings down the limb ai after prev = <<the quotient's
\* limbs, the remainder>>
DivLimb(ai, d, prev) ==
    IF prev[2] = <<>> /\ ai = 0 THEN << <<0>> \o prev[1], <<>> >>
    ELSE DivLimbEst(d, prev[1], BTrim(<<ai>> \o prev[2]),
                    Estimate(BTrim(<<ai>> \o prev[2]), d))

\* Long division of the limbs Len(a)..i of a by d (top limb at least
\* Base / 2): <<the quotient's limbs, the remainder>>
RECURSIVE BDivModFrom(_, _, _)
BDivModFrom(a, d, i) ==
    IF i > Len(a) THEN << <<>>, <<>> >>
    ELSE DivLimb(a[i], d, BDivModFrom(a, d, i + 1))

\* The quotient and remainder of the division scaled by 2^s, scaled back
Unshift(qr, s) == <<BTrim(qr[1]), BShr(qr[2], s)>>

BDivModBy(a, d, s) == Unshift(BDivModFrom(BShl(a, s), BShl(d, s), 1), s)

\* <<floor(a / d), a mod d>> for d > 0: the divisor is scaled to have its
\* top limb at least Base / 2
BDivMod(a, d) == BDivModBy(a, d, LimbBits - BitLenSmall(d[Len(d)]))

\* floor(a / k) for 0 < k < Base, the limbs i..1 after the remainder r
RECURSIVE BDivSmallFrom(_, _, _, _)
BDivSmallFrom(a, k, i, r) ==
    IF i = 0 THEN <<>>
    ELSE LET cur == r * Base + a[i]
         IN  Append(BDivSmallFrom(a, k, i - 1, cur % k), cur \div k)

BDivSmall(a, k) == BTrim(BDivSmallFrom(a, k, Len(a), 0))

(***************************************************************************)
(* Python floats.  A finite float is (-1)^sign * man * 2^exp with          *)
(* man < 2^53; it is normal when man >= 2^52, and subnormal or zero when   *)
(* exp = MinExp.  Every float has exactly one record.                      *)
(***************************************************************************)
MantBits == 53

MinExp == -1074

MaxExp == 971

Fin(s, m, e) == [cls |-> "fin", sign |-> s, man |-> m, exp |-> e]

Zero(s) == Fin(s, <<>>, MinExp)

Inf(s) == [cls |-> "inf", sign |-> s, man |-> <<>>, exp |-> 0]

NaN == [cls |-> "nan", sign |-> 0, man |-> <<>>, exp |-> 0]

IsZero(x) == x.cls = "fin" /\ x.man = <<>>

IsFinite(x) == x.cls = "fin"

IsNormal(x) == x.cls = "fin" /\ BBitLen(x.man) = MantBits

\* (-1)^s * m * 2^e with m < 2^53, or the infinity when e is too large
Pack(s, m, e) == IF e > MaxExp THEN Inf(s) ELSE Fin(s, m, e)

\* A significand of 54 bits (rounding went up from 2^53 - 1) is halved
Renorm(s, m, e) ==
    IF BBitLen(m) > MantBits THEN Pack(s, BShr(m, 1), e + 1) ELSE Pack(s, m, e)

\* Rounding to nearest, ties to even: up when the bit below the kept ones
\* is set and either something lies below it or the last kept bit is odd.
\* Rounding away from zero: up when anything lies below the kept bits.
\* Rounding toward zero: never up.
RoundsUp(M, sh, sticky, q, mode) ==
    /\ sh > 0
    /\ CASE mode = "nearest" ->
                /\ BBit(M, sh - 1) = 1
                /\ sticky \/ ~BLowZero(M, sh - 1) \/ BBit(q, 0) = 1
         [] mode = "away" -> sticky \/ ~BLowZero(M, sh)
         [] mode = "zero" -> FALSE

RoundKept(s, M, sticky, e, sh, q, mode) ==
    Renorm(s, IF RoundsUp(M, sh, sticky, q, mode) THEN BAdd(q, <<1>>) ELSE q,
           e)

RoundAt(s, M, E, sticky, e, mode) ==
    RoundKept(s, M, sticky, e, e - E,
              IF e > E THEN BShr(M, e - E) ELSE BShl(M, E - e), mode)

\* The exponent of the float for a significand of len bits at exponent E
ExpFor(E, len) ==
    IF E + len - MantBits < MinExp THEN MinExp ELSE E + len - MantBits

\* The float nearest to (-1)^s * (M + t) * 2^E, ties to even, where t = 0
\* when sticky is false and 0 < t < 1 when it is true (then M keeps at least
\* MantBits + 2 bits).  Overflow gives an infinity, underflow a subnormal.
RoundMode(s, M, E, sticky, mode) ==
    IF M = <<>> THEN Zero(s)
    ELSE RoundAt(s, M, E, sticky, ExpFor(E, BBitLen(M)), mode)

Round(s, M, E, sticky) == RoundMode(s, M, E, sticky, "nearest")

\* float(n) for a natural number n
FromInt(n) == Round(0, BOfNat(n), 0, FALSE)

FNeg(x) == IF x.cls = "nan" THEN x ELSE [x EXCEPT !.sign = 1 - x.sign]

FAbs(x) == IF x.cls = "nan" THEN x ELSE [x EXCEPT !.sign = 0]

SignXor(x, y) == (x.sign + y.sign) % 2

\* x * y
FMul(x, y) ==
    IF x.cls = "nan" \/ y.cls = "nan" THEN NaN
    ELSE IF x.cls = "inf" \/ y.cls = "inf"
         THEN (IF IsZero(x) \/ IsZero(y) THEN NaN ELSE Inf(SignXor(x, y)))
    ELSE Round(SignXor(x, y), BMul(x.man, y.man), x.exp + y.exp, FALSE)

\* The bits to scale a numerator of n bits by, for its quotient by a
\* divisor of d bits to have MantBits + 2 bits or more
ShiftFor(n, d) ==
    IF d + MantBits + 2 > n THEN d + MantBits + 2 - n ELSE 0

RoundQuot(s, qr, E) == Round(s, qr[1], E, qr[2] # <<>>)

DivRoundBy(s, N, D, E, k) == RoundQuot(s, BDivMod(BShl(N, k), D), E - k)

\* The float nearest to (-1)^s * (N / D) * 2^E for natural numbers N and
\* D > 0: the quotient is taken to MantBits + 2 bits or more and a
\* remainder is the sticky bit
DivRound(s, N, D, E) ==
    DivRoundBy(s, N, D, E, ShiftFor(BBitLen(N), BBitLen(D)))

\* x / y for y # 0
FDiv(x, y) ==
    IF x.cls = "nan" \/ y.cls = "nan" THEN NaN
    ELSE IF x.cls = "inf"
         THEN (IF y.cls = "inf" THEN NaN ELSE Inf(SignXor(x, y)))
    ELSE IF y.cls = "inf" \/ IsZero(x) THEN Zero(SignXor(x, y))
    ELSE DivRound(SignXor(x, y), x.man, y.man, x.exp - y.exp)

\* The position of a float x >= 0 among the floats >= 0 in increasing order
Ord(x) == BAdd(BShl(BOfNat(x.exp - MinExp), MantBits - 1), x.man)

\* x < y and x <= y for floats that are not NaN
FLt(x, y) ==
    LET rank(z) == IF z.cls = "inf" THEN BShl(<<1>>, 4 * LimbBits + 5)
                   ELSE Ord(z)
    IN  IF IsZero(x) /\ IsZero(y) THEN FALSE
        ELSE IF x.sign # y.sign THEN x.sign = 1
        ELSE IF x.sign = 0 THEN BCmp(rank(x), rank(y)) < 0
        ELSE BCmp(rank(x), rank(y)) > 0

\* Python's x == y
FEq(x, y) ==
    /\ x.cls # "nan" /\ y.cls # "nan"
    /\ x = y \/ (IsZero(x) /\ IsZero(y))

FLe(x, y) == FLt(x, y) \/ FEq(x, y)

\* x and y are finite, of the same sign and at most n floats apart
WithinUlps(x, y, n) ==
    /\ IsFinite(x) /\ IsFinite(y)
    /\ x.sign = y.sign \/ (IsZero(x) /\ IsZero(y))
    /\ IF BCmp(Ord(x), Ord(y)) >= 0
       THEN BCmp(BSub(Ord(x), Ord(y)), BOfNat(n)) <= 0
       ELSE BCmp(BSub(Ord(y), Ord(x)), BOfNat(n)) <= 0

\* The natural number written in decimal, four digits to a group, the
\* groups g[1..n] from the most significant
RECURSIVE BOfGroups(_, _)
BOfGroups(g, n) ==
    IF n = 0 THEN <<>>
    ELSE LET high == BOfGroups(g, n - 1)
         IN  IF high = <<>> THEN BOfNat(g[n])
             ELSE BAdd(BMulSmall(high, 10^4), BOfNat(g[n]))

RECURSIVE BPow10(_)
BPow10(n) ==
    IF n = 0 THEN <<1>>
    ELSE LET p == BPow10(n - 1) IN IF p = <<>> THEN p ELSE BMulSmall(p, 10)

\* The float a decimal literal denotes: its digits (in groups of four) with
\* `places` of them after the point, as float() and the compiler read it
Literal(groups, places) ==
    DivRound(0, BOfGroups(groups, Len(groups)), BPow10(places), 0)

(***************************************************************************)
(* math.log and math.pi.  The logarithm is computed in fixed point with    *)
(* FracBits fractional bits, far more than a float keeps, and rounded      *)
(* once, down or up.  math.log is the C library's log, which is not        *)
(* correctly rounded: its error is below one unit in the last place, so    *)
(* what it returns is one of the two floats the logarithm lies between     *)
(* (the logarithm itself when that is a float: log(1.0) is 0.0), and which *)
(* of the two depends on the build.                                        *)
(*   ln(f * 2^E) = E * ln 2 + 2 * atanh((f - 1) / (f + 1)),  3/4 <= f < 3/2 *)
(*   atanh z = z + z^3/3 + z^5/5 + ...                                     *)
(***************************************************************************)
FracLimbs == 9

FracBits == LimbBits * FracLimbs

\* The product of two fixed-point numbers, truncated
DropFrac(p) ==
    IF Len(p) <= FracLimbs THEN <<>> ELSE SubSeq(p, FracLimbs + 1, Len(p))

FixMul(a, b) == DropFrac(BMul(a, b))

\* The term t before rest = <<a sum of terms, the numerator after them>>
AddTerm(t, rest) ==
    IF rest[1] = <<>> THEN <<t, rest[2]>> ELSE <<BAdd(t, rest[1]), rest[2]>>

\* At most c terms of p/n + p*z2/(n+2) + p*z2^2/(n+4) + ... in fixed point:
\* <<their sum, the numerator of the term after them>>
RECURSIVE SeriesBlock(_, _, _, _)
SeriesBlock(p, z2, n, c) ==
    IF c = 0 \/ p = <<>> THEN << <<>>, p >>
    ELSE AddTerm(BDivSmall(p, n), SeriesBlock(FixMul(p, z2), z2, n + 2, c - 1))

\* p/n + p*z2/(n+2) + p*z2^2/(n+4) + ... in fixed point, until the terms
\* vanish, summed six terms at a time
RECURSIVE AtanhSeries(_, _, _)
AddBlock(blk, z2, n) ==
    IF blk[2] = <<>> THEN blk[1]
    ELSE BAdd(blk[1], AtanhSeries(blk[2], z2, n + 12))

AtanhSeries(p, z2, n) ==
    IF p = <<>> THEN <<>> ELSE AddBlock(SeriesBlock(p, z2, n, 6), z2, n)

TwoAtanhSq(z, z2) ==
    IF z2 = <<>> THEN BMulSmall(z, 2)
    ELSE BMulSmall(AtanhSeries(z, z2, 1), 2)

TwoAtanhOf(z) == IF z = <<>> THEN <<>> ELSE TwoAtanhSq(z, FixMul(z, z))

\* 2 * atanh(num / den) in fixed point, for 0 <= num < den
TwoAtanh(num, den) == TwoAtanhOf(BDivMod(BShl(num, FracBits), den)[1])

\* ln 2 = 2 * atanh(1/3)
Ln2 == TwoAtanh(<<1>>, <<3>>)

\* The k for which f = m / 2^k lies in [3/4, 3/2), for m of len bits
SplitAt(m, len) ==
    IF len >= 2 /\ BBit(m, len - 1) = 1 /\ BBit(m, len - 2) = 1 THEN len
    ELSE len - 1

\* |m - one|
Dist(m, one) == IF BCmp(m, one) < 0 THEN BSub(one, m) ELSE BSub(m, one)

\* E * ln 2 + ln f from whole = |E| * ln 2 and frac = |ln f|, where below
\* says that f < 1
\* The two ways the library may round a logarithm
LogRoundings == {"down", "up"}

\* Rounding a number of sign s down or up, as a rounding of its magnitude
Toward(s, dir) == IF (s = 0) = (dir = "up") THEN "away" ELSE "zero"

LogRound(s, M, dir) == RoundMode(s, M, -FracBits, TRUE, Toward(s, dir))

LogSum(E, below, frac, whole, dir) ==
    IF frac = <<>> /\ whole = <<>> THEN Zero(0)
    ELSE LogRound(IF E < 0 \/ (E = 0 /\ below) THEN 1 ELSE 0,
                  IF (E < 0) = below \/ E = 0 THEN BAdd(whole, frac)
                  ELSE BSub(whole, frac),
                  dir)

LogParts(m, E, one, dir) ==
    LogSum(E, BCmp(m, one) < 0, TwoAtanh(Dist(m, one), BAdd(m, one)),
           BMulSmall(Ln2, IF E < 0 THEN -E ELSE E), dir)

LogSplit(x, k, dir) == LogParts(x.man, x.exp + k, BShl(<<1>>, k), dir)

\* ln(x) for a finite float x > 0, where x = f * 2^E and f = x.man / 2^k,
\* rounded down or up
Log(x, dir) == LogSplit(x, SplitAt(x.man, BBitLen(x.man)), dir)

\* The library's log on a build: lib holds what it has returned so far, to
\* each argument the one result, and dir says how it rounds a logarithm it
\* has not been asked for yet
NoLogs == [x \in {} |-> Zero(0)]

LibmLog(x, lib, dir) == IF x \in DOMAIN lib THEN lib[x] ELSE Log(x, dir)

\* math.pi
pi == Literal(<<3141, 5926, 5358, 9793>>, 15)

(***************************************************************************)
(* The interpreter.  A value is a float, a bool (TRUE, FALSE), None or an  *)
(* exception on its way up.  Operators of expressions hand an exception    *)
(* raised in an operand on, the left operand's first.                      *)
(***************************************************************************)
None == [cls |-> "None"]

Raise(exc) == [cls |-> "raise", exc |-> exc]

IsRaise(v) == v.cls = "raise"

IsFloat(v) == v.cls \in {"fin", "inf", "nan"}

\* x * y on floats
PyMul(x, y) ==
    IF IsRaise(x) THEN x ELSE IF IsRaise(y) THEN y ELSE FMul(x, y)

\* x / y as IEEE 754 defines it, with no exception: x / 0 is an infinity,
\* 0 / 0 is NaN
PyTrueDiv_IEEE(x, y) ==
    IF IsRaise(x) THEN x
    ELSE IF IsRaise(y) THEN y
    ELSE IF IsZero(y)
         THEN (IF IsZero(x) \/ x.cls = "nan" THEN NaN ELSE Inf(SignXor(x, y)))
    ELSE FDiv(x, y)

\* x / y on floats (true division): a zero divisor raises
PyTrueDiv(x, y) ==
    IF IsRaise(x) THEN x
    ELSE IF IsRaise(y) THEN y
    ELSE IF IsZero(y) THEN Raise("ZeroDivisionError")
    ELSE FDiv(x, y)

\* x ** 2 on a float: the square, rounded once
PySquare(x) == IF IsRaise(x) THEN x ELSE FMul(x, x)

\* math.log(x) goes to the library's log for a finite x > 0
InLogDomain(x) ==
    IsFloat(x) /\ IsFinite(x) /\ ~IsZero(x) /\ x.sign = 0

\* math.log(x): a math domain error for x <= 0
PyLog(x, lib, dir) ==
    IF IsRaise(x) THEN x
    ELSE IF x.cls = "nan" THEN x
    ELSE IF IsZero(x) \/ x.sign = 1 THEN Raise("ValueError")
    ELSE IF x.cls = "inf" THEN x
    ELSE LibmLog(x, lib, dir)

(***************************************************************************)
(* The module's namespace.  Line 20 imports five names from                *)
(* scipy.constants, which defines them by                                  *)
(*   inch = 0.0254, foot = 12 * inch, hour = 60 * 60.0,                    *)
(*   degree_Fahrenheit = 1 / 1.8, Btu = 1055.05585262                      *)
(* so that foot is the float 0.30479999999999996, one below 0.3048.        *)
(***************************************************************************)
inch == Literal(<<254>>, 4)

foot == FMul(FromInt(12), inch)

hour == FromInt(3600)

degree_Fahrenheit == FDiv(FromInt(1), Literal(<<18>>, 1))

\* The thermochemical Btu, 1054.35026449 J, for the International Table one
Btu_thermochemical == Literal(<<1054, 3502, 6449>>, 8)

Btu == Literal(<<1055, 558, 5262>>, 8)

ModuleGlobals ==
    [inch |-> inch, foot |-> foot, hour |-> hour, Btu |-> Btu,
     degree_Fahrenheit |-> degree_Fahrenheit, pi |-> pi]

(***************************************************************************)
(* The source as the interpreter holds it: expressions and statements as   *)
(* trees (the nodes of Python's ast), the statements of a function by      *)
(* their line.  The int literal 2 of `k*2` is written as the float the     *)
(* multiplication converts it to.                                          *)
(***************************************************************************)
Name(id) == [node |-> "Name", id |-> id]

Num(v) == [node |-> "Num", n |-> v]

BinOp(l, op, r) == [node |-> "BinOp", left |-> l, op |-> op, right |-> r]

CallOf(fn, args) == [node |-> "Call", func |-> fn, args |-> args]

AssignStmt(target, value, line) ==
    [stmt |-> "Assign", target |-> target, value |-> value, next |-> line]

IfStmt(test, body, orelse) ==
    [stmt |-> "If", test |-> test, body |-> body, orelse |-> orelse]

ReturnStmt(value) == [stmt |-> "Return", value |-> value]

\* k = t/A*R for line 65
Code_R_to_k_LeftToRight ==
    65 :> AssignStmt("k", BinOp(BinOp(Name("t"), "/", Name("A")),
                                "*", Name("R")), 66)
    @@ 66 :> ReturnStmt(Name("k"))

\* def R_to_k(R, t, A=1.)
Code_R_to_k ==
    65 :> AssignStmt("k", BinOp(Name("t"), "/",
                                BinOp(Name("A"), "*", Name("R"))), 66)
    @@ 66 :> ReturnStmt(Name("k"))

\* R = t/k*A for line 107
Code_k_to_R_LeftToRight ==
    107 :> AssignStmt("R", BinOp(BinOp(Name("t"), "/", Name("k")),
                                 "*", Name("A")), 108)
    @@ 108 :> ReturnStmt(Name("R"))

\* def k_to_R(k, t, A=1.)
Code_k_to_R ==
    107 :> AssignStmt("R", BinOp(Name("t"), "/",
                                 BinOp(Name("k"), "*", Name("A"))), 108)
    @@ 108 :> ReturnStmt(Name("R"))

\* def k_to_thermal_resistivity(k)
Code_k_to_thermal_resistivity ==
    145 :> AssignStmt("r", BinOp(Num(FromInt(1)), "/", Name("k")), 146)
    @@ 146 :> ReturnStmt(Name("r"))

\* k = 1.*r for line 182
Code_thermal_resistivity_to_k_Times ==
    182 :> AssignStmt("k", BinOp(Num(FromInt(1)), "*", Name("r")), 183)
    @@ 183 :> ReturnStmt(Name("k"))

\* def thermal_resistivity_to_k(r)
Code_thermal_resistivity_to_k ==
    182 :> AssignStmt("k", BinOp(Num(FromInt(1)), "/", Name("r")), 183)
    @@ 183 :> ReturnStmt(Name("k"))

\* x*foot**2*degree_Fahrenheit*hour/Btu/inch as Python parses it: ** binds
\* tightest, * and / associate to the left
ImperialChain(x) ==
    BinOp(BinOp(BinOp(BinOp(BinOp(x, "*",
                                  BinOp(Name("foot"), "**", Num(FromInt(2)))),
                            "*", Name("degree_Fahrenheit")),
                      "*", Name("hour")),
                "/", Name("Btu")),
          "/", Name("inch"))

\* foot**2*degree_Fahrenheit*hour/Btu/inch, the parenthesis of line 267
ImperialFactor ==
    BinOp(BinOp(BinOp(BinOp(BinOp(Name("foot"), "**", Num(FromInt(2))),
                            "*", Name("degree_Fahrenheit")),
                      "*", Name("hour")),
                "/", Name("Btu")),
          "/", Name("inch"))

\* r = R_value*inch for line 222
Code_R_value_to_k_TimesInch ==
    221 :> IfStmt(Name("SI"), 222, 224)
    @@ 222 :> AssignStmt("r", BinOp(Name("R_value"), "*", Name("inch")), 225)
    @@ 224 :> AssignStmt("r", ImperialChain(Name("R_value")), 225)
    @@ 225 :> AssignStmt("k", CallOf("thermal_resistivity_to_k",
                                     <<Name("r")>>), 226)
    @@ 226 :> ReturnStmt(Name("k"))

\* def R_value_to_k(R_value, SI=True)
Code_R_value_to_k ==
    221 :> IfStmt(Name("SI"), 222, 224)
    @@ 222 :> AssignStmt("r", BinOp(Name("R_value"), "/", Name("inch")), 225)
    @@ 224 :> AssignStmt("r", ImperialChain(Name("R_value")), 225)
    @@ 225 :> AssignStmt("k", CallOf("thermal_resistivity_to_k",
                                     <<Name("r")>>), 226)
    @@ 226 :> ReturnStmt(Name("k"))

\* R_value = r/inch for line 265
Code_k_to_R_value_OverInch ==
    263 :> AssignStmt("r", CallOf("k_to_thermal_resistivity",
                                  <<Name("k")>>), 264)
    @@ 264 :> IfStmt(Name("SI"), 265, 267)
    @@ 265 :> AssignStmt("R_value", BinOp(Name("r"), "/", Name("inch")), 268)
    @@ 267 :> AssignStmt("R_value", BinOp(Name("r"), "/", ImperialFactor), 268)
    @@ 268 :> ReturnStmt(Name("R_value"))

\* def k_to_R_value(k, SI=True)
Code_k_to_R_value ==
    263 :> AssignStmt("r", CallOf("k_to_thermal_resistivity",
                                  <<Name("k")>>), 264)
    @@ 264 :> IfStmt(Name("SI"), 265, 267)
    @@ 265 :> AssignStmt("R_value", BinOp(Name("r"), "*", Name("inch")), 268)
    @@ 267 :> AssignStmt("R_value", BinOp(Name("r"), "/", ImperialFactor), 268)
    @@ 268 :> ReturnStmt(Name("R_value"))

\* hA = k*2*pi*L/log(Do)/Di for line 313: the parenthesis closed early
Code_R_cylinder_LogOfDo ==
    313 :> AssignStmt("hA",
               BinOp(BinOp(BinOp(BinOp(BinOp(Name("k"), "*", Num(FromInt(2))),
                                       "*", Name("pi")),
                                 "*", Name("L")),
                           "/", CallOf("log", <<Name("Do")>>)),
                     "/", Name("Di")),
               314)
    @@ 314 :> AssignStmt("R", BinOp(Num(FromInt(1)), "/", Name("hA")), 315)
    @@ 315 :> ReturnStmt(Name("R"))

\* hA = k*2*pi*L/log(Di/Do) for line 313: the diameters exchanged
Code_R_cylinder_DiOverDo ==
    313 :> AssignStmt("hA",
               BinOp(BinOp(BinOp(BinOp(Name("k"), "*", Num(FromInt(2))),
                                 "*", Name("pi")),
                           "*", Name("L")),
                     "/",
                     CallOf("log", <<BinOp(Name("Di"), "/", Name("Do"))>>)),
               314)
    @@ 314 :> AssignStmt("R", BinOp(Num(FromInt(1)), "/", Name("hA")), 315)
    @@ 315 :> ReturnStmt(Name("R"))

\* def R_cylinder(Di, Do, k, L)
Code_R_cylinder ==
    313 :> AssignStmt("hA",
               BinOp(BinOp(BinOp(BinOp(Name("k"), "*", Num(FromInt(2))),
                                 "*", Name("pi")),
                           "*", Name("L")),
                     "/",
                     CallOf("log", <<BinOp(Name("Do"), "/", Name("Di"))>>)),
               314)
    @@ 314 :> AssignStmt("R", BinOp(Num(FromInt(1)), "/", Name("hA")), 315)
    @@ 315 :> ReturnStmt(Name("R"))

\* The module's functions: parameters in order, the parameters' defaults,
\* the line of the first statement, the statements
Functions ==
    [R_to_k |->
        [params |-> <<"R", "t", "A">>, defaults |-> [A |-> FromInt(1)],
         entry |-> 65, code |-> Code_R_to_k],
     k_to_R |->
        [params |-> <<"k", "t", "A">>, defaults |-> [A |-> FromInt(1)],
         entry |-> 107, code |-> Code_k_to_R],
     k_to_thermal_resistivity |->
        [params |-> <<"k">>, defaults |-> [x \in {} |-> None],
         entry |-> 145, code |-> Code_k_to_thermal_resistivity],
     thermal_resistivity_to_k |->
        [params |-> <<"r">>, defaults |-> [x \in {} |-> None],
         entry |-> 182, code |-> Code_thermal_resistivity_to_k],
     R_value_to_k |->
        [params |-> <<"R_value", "SI">>, defaults |-> [SI |-> TRUE],
         entry |-> 221, code |-> Code_R_value_to_k],
     k_to_R_value |->
        [params |-> <<"k", "SI">>, defaults |-> [SI |-> TRUE],
         entry |-> 263, code |-> Code_k_to_R_value],
     R_cylinder |->
        [params |-> <<"Di", "Do", "k", "L">>, defaults |-> [x \in {} |-> None],
         entry |-> 313, code |-> Code_R_cylinder]]

(***************************************************************************)
(* Frames.  A call runs in a frame: the function, the line it is at, its   *)
(* local names, and the value a call it made has returned (None when there *)
(* is none).  A name is looked up among the locals and then in the         *)
(* module's namespace; an assignment in a function binds a local.          *)
(***************************************************************************)
LoadName(g, f, name) ==
    IF name \in DOMAIN f.loc THEN f.loc[name] ELSE g[name]

\* An assignment that binds the name in the module's namespace, as under a
\* `global` declaration
StoreName_Global(g, f, name, v) == [g |-> (name :> v) @@ g, frame |-> f]

StoreName(g, f, name, v) ==
    [g |-> g, frame |-> [f EXCEPT !.loc = (name :> v) @@ f.loc]]

\* The parameters of a call as the function sees them: the arguments, and
\* the defaults of the parameters left out
Bind(fn, args) == args @@ Functions[fn].defaults

NewFrame(fn, args) ==
    [fn |-> fn, pc |-> Functions[fn].entry, loc |-> Bind(fn, args),
     ret |-> None]

\* The value of an expression in frame f, with the library's log as lib
\* and dir have it
RECURSIVE Eval(_, _, _, _, _)
Eval(g, f, e, lib, dir) ==
    CASE e.node = "Name" -> LoadName(g, f, e.id)
      [] e.node = "Num" -> e.n
      [] e.node = "BinOp" /\ e.op = "*" ->
            PyMul(Eval(g, f, e.left, lib, dir), Eval(g, f, e.right, lib, dir))
      [] e.node = "BinOp" /\ e.op = "/" ->
            PyTrueDiv(Eval(g, f, e.left, lib, dir),
                      Eval(g, f, e.right, lib, dir))
      [] e.node = "BinOp" /\ e.op = "**" /\ e.right = Num(FromInt(2)) ->
            PySquare(Eval(g, f, e.left, lib, dir))
      [] e.node = "Call" /\ e.func = "log" ->
            PyLog(Eval(g, f, e.args[1], lib, dir), lib, dir)

\* The arguments the library's log gets while the expression is evaluated.
\* The right operand of an operator is not evaluated when the left one has
\* raised.
LogArgOf(x) == IF InLogDomain(x) THEN {x} ELSE {}

\* The expression has a call of log in it
RECURSIVE HasLog(_)
HasLog(e) ==
    CASE e.node \in {"Name", "Num"} -> FALSE
      [] e.node = "BinOp" -> HasLog(e.left) \/ HasLog(e.right)
      [] e.node = "Call" -> e.func = "log" \/ \E i \in DOMAIN e.args :
                                                  HasLog(e.args[i])

RECURSIVE LogArgs(_, _, _, _, _)
LogArgs(g, f, e, lib, dir) ==
    CASE ~HasLog(e) -> {}
      [] e.node = "BinOp" /\ e.op = "**" -> LogArgs(g, f, e.left, lib, dir)
      [] e.node = "BinOp" /\ e.op \in {"*", "/"} ->
            LogArgs(g, f, e.left, lib, dir)
                \cup IF IsRaise(Eval(g, f, e.left, lib, dir)) THEN {}
                     ELSE LogArgs(g, f, e.right, lib, dir)
      [] e.node = "Call" /\ e.func = "log" ->
            LogArgs(g, f, e.args[1], lib, dir)
                \cup LogArgOf(Eval(g, f, e.args[1], lib, dir))

(***************************************************************************)
(* What a statement does: go on to another line, call a function of the    *)
(* module, return a value or raise.                                        *)
(***************************************************************************)
GoTo(g, f, line) ==
    [op |-> "next", g |-> g, frame |-> [f EXCEPT !.pc = line], val |-> None]

Stored(s, line) == GoTo(s.g, s.frame, line)

\* name = v, then on to `line`; an exception raised in v leaves the frame
Assign(g, f, name, v, line) ==
    IF IsRaise(v) THEN [op |-> "raise", g |-> g, frame |-> f, val |-> v]
    ELSE Stored(StoreName(g, f, name, v), line)

\* The callee's parameters bound to the values of the positional arguments
Positional(params, vals) ==
    [x \in {params[i] : i \in 1..Len(vals)} |->
        vals[CHOOSE i \in 1..Len(vals) : params[i] = x]]

\* A call of the function fn of the module
CallFn(g, f, fn, vals) ==
    [op |-> "call", g |-> g, frame |-> f,
     val |-> NewFrame(fn, Positional(Functions[fn].params, vals))]

\* A call in a statement is a call of a function of the module, which gets
\* a frame of its own, or of a builtin (math.log), which is evaluated in place
CallsFunction(st) ==
    /\ st.stmt = "Assign"
    /\ st.value.node = "Call"
    /\ st.value.func \in DOMAIN Functions

\* What the statement evaluates: the test, the value returned or assigned
Operand(st) ==
    CASE st.stmt = "If" -> st.test
      [] st.stmt = "Return" -> st.value
      [] st.stmt = "Assign" -> st.value

\* The statement st in frame f, v the value of its operand.  An exception
\* raised in the value of a return leaves the frame.
ExecValue(g, f, st, v) ==
    CASE st.stmt = "If" -> GoTo(g, f, IF v THEN st.body ELSE st.orelse)
      [] st.stmt = "Return" ->
            [op |-> IF IsRaise(v) THEN "raise" ELSE "return",
             g |-> g, frame |-> f, val |-> v]
      [] st.stmt = "Assign" -> Assign(g, f, st.target, v, st.next)

\* The statement st in frame f.  An assignment of a call of a function of
\* the module makes the call first and assigns once the callee has returned.
ExecStmt(g, f, st, lib, dir) ==
    IF ~CallsFunction(st)
    THEN ExecValue(g, f, st, Eval(g, f, Operand(st), lib, dir))
    ELSE IF f.ret = None
    THEN CallFn(g, f, st.value.func,
                [i \in 1..Len(st.value.args) |->
                    Eval(g, f, st.value.args[i], lib, dir)])
    ELSE Assign(g, [f EXCEPT !.ret = None], st.target, f.ret, st.next)

\* The expressions the statement st evaluates in frame f
Evaluated(f, st) ==
    IF ~CallsFunction(st) THEN {Operand(st)}
    ELSE IF f.ret = None
    THEN {st.value.args[i] : i \in 1..Len(st.value.args)}
    ELSE {}

\* The ways the library may round that make a difference to the statement
\* st in frame f: both when it calls log, and else either
Roundings(f, st) ==
    IF \E e \in Evaluated(f, st) : HasLog(e) THEN LogRoundings ELSE {"down"}

\* The library's log after the statement st in frame f: what it had
\* returned before, and what it has returned to the statement
Learn(lib, xs, dir) == [x \in DOMAIN lib \cup xs |-> LibmLog(x, lib, dir)]

LogAfter(g, f, st, lib, dir) ==
    Learn(lib, UNION {LogArgs(g, f, e, lib, dir) : e \in Evaluated(f, st)},
          dir)

(***************************************************************************)
(* A thread's stack of frames, the innermost last.  One step runs the      *)
(* innermost frame's statement.  A return hands the value to the caller's  *)
(* frame, or ends the thread's call when there is no caller.  No function  *)
(* catches anything, so an exception leaves every frame and is the call's  *)
(* outcome.                                                                *)
(***************************************************************************)
\* The stack of n frames and the outcome after the innermost frame's
\* statement has done e
Finish(stk, n, e) ==
    CASE e.op = "next" ->
            [g |-> e.g, stack |-> [stk EXCEPT ![n] = e.frame], out |-> None]
      [] e.op = "call" ->
            [g |-> e.g,
             stack |-> Append([stk EXCEPT ![n] = e.frame], e.val),
             out |-> None]
      [] e.op = "return" /\ n = 1 ->
            [g |-> e.g, stack |-> <<>>, out |-> e.val]
      [] e.op = "return" /\ n > 1 ->
            [g |-> e.g,
             stack |-> [SubSeq(stk, 1, n - 1) EXCEPT ![n - 1].ret = e.val],
             out |-> None]
      [] e.op = "raise" ->
            [g |-> e.g, stack |-> <<>>, out |-> e.val]

\* The statement frame f is at, f the innermost frame of stk, with lib the
\* library's log after the statement
AfterLogs(g, stk, f, lib, dir) ==
    [lib |-> lib]
        @@ Finish(stk, Len(stk),
                  ExecStmt(g, f, Functions[f.fn].code[f.pc], lib, dir))

InFrame(g, stk, f, lib, dir) ==
    AfterLogs(g, stk, f,
              LogAfter(g, f, Functions[f.fn].code[f.pc], lib, dir), dir)

ExecStep(g, stk, lib, dir) == InFrame(g, stk, stk[Len(stk)], lib, dir)

\* The outcome of a call run from its first statement to its end with no
\* other thread running: the value returned or the exception raised, and
\* the library's log after it
Ended(s) == [out |-> s.out, lib |-> s.lib]

RECURSIVE RunToEnd(_, _, _, _)
RunOn(s, dir) ==
    IF s.stack = <<>> THEN Ended(s)
    ELSE RunToEnd(s.g, s.stack, s.lib, dir)

RunToEnd(g, stk, lib, dir) == RunOn(ExecStep(g, stk, lib, dir), dir)

RunAlone(c, lib, dir) ==
    RunToEnd(ModuleGlobals, <<NewFrame(c.fn, c.args)>>, lib, dir)

(***************************************************************************)
(* Callers.  The arguments calls are made with: the floats 0.0, 0.1, ...   *)
(* and 1.0, 0.9, ... on grids of MaxTenths + 1 points, and the literals of *)
(* the docstrings' examples.  A caller makes a call and then up to         *)
(* MaxChain - 1 more, each from the one before it: the inverse function    *)
(* on the value returned (as the example of k_to_R_value does), the same   *)
(* R-value in the other system of units (as the example of R_value_to_k    *)
(* does), or the cylinder with its two diameters exchanged.                *)
(***************************************************************************)
MaxTenths == 3

MaxChain == 2

NThreads == 2

Threads == 1..NThreads

\* The literal 0.n (1.0 for n = 10)
Tenth(n) == FDiv(FromInt(n), FromInt(10))

\* The literal 0.nnn
Thousandth(n) == FDiv(FromInt(n), FromInt(1000))

Tenths == {Tenth(n) : n \in 0..MaxTenths}

PosTenths == {Tenth(n) : n \in 1..MaxTenths}

NearOne == {Tenth(10 - n) : n \in 0..MaxTenths}

Conductivities == Tenths \cup NearOne \cup {Thousandth(250), FromInt(4)}

RValues == Tenths \cup {Thousandth(120), Thousandth(710), FromInt(1)}

Diameters == NearOne \cup {Tenth(0)}

Calls ==
    LET of(fn, argss) == {[fn |-> fn, args |-> a] : a \in argss}
    IN  of("R_to_k", [R : Tenths, t : PosTenths]
                     \cup [R : Tenths, t : PosTenths, A : Tenths]
                     \cup {[R |-> Thousandth(50), t |-> Thousandth(25)]})
        \cup
        of("k_to_R", [k : Tenths, t : PosTenths]
                     \cup [k : Tenths, t : PosTenths, A : Tenths]
                     \cup {[k |-> Thousandth(500), t |-> Thousandth(25)]})
        \cup of("k_to_thermal_resistivity", [k : Conductivities])
        \cup of("thermal_resistivity_to_k", [r : Conductivities])
        \cup of("R_value_to_k", [R_value : RValues]
                                \cup [R_value : RValues, SI : BOOLEAN])
        \cup of("k_to_R_value", [k : RValues]
                                \cup [k : RValues, SI : BOOLEAN])
        \cup of("R_cylinder", [Di : Diameters, Do : Diameters,
                               k : {FromInt(20)},
                               L : {FromInt(10), Tenth(1)}])

\* The calls of the docstrings' examples, one or two of each function,
\* which concurrent threads make
ThreadCalls ==
    {[fn |-> "R_to_k", args |-> [R |-> Thousandth(50), t |-> Thousandth(25)]],
     [fn |-> "k_to_R", args |-> [k |-> Thousandth(500), t |-> Thousandth(25)]],
     [fn |-> "k_to_thermal_resistivity", args |-> [k |-> Thousandth(250)]],
     [fn |-> "thermal_resistivity_to_k", args |-> [r |-> FromInt(4)]],
     [fn |-> "R_value_to_k", args |-> [R_value |-> Thousandth(120)]],
     [fn |-> "k_to_R_value",
      args |-> [k |-> Thousandth(250), SI |-> FALSE]],
     [fn |-> "R_cylinder",
      args |-> [Di |-> Tenth(9), Do |-> Tenth(10),
                k |-> FromInt(20), L |-> FromInt(10)]]}

\* args without the name n, and with name n bound to v
Without(args, n) == [x \in DOMAIN args \ {n} |-> args[x]]

With(args, n, v) == (n :> v) @@ args

\* The calls a caller may go on to after the completed call h
FollowUps(h) ==
    CASE h.fn = "R_to_k" ->
            {[fn |-> "k_to_R", args |-> With(Without(h.args, "R"), "k", h.out)]}
      [] h.fn = "k_to_R" ->
            {[fn |-> "R_to_k", args |-> With(Without(h.args, "k"), "R", h.out)]}
      [] h.fn = "k_to_thermal_resistivity" ->
            {[fn |-> "thermal_resistivity_to_k", args |-> [r |-> h.out]]}
      [] h.fn = "thermal_resistivity_to_k" ->
            {[fn |-> "k_to_thermal_resistivity", args |-> [k |-> h.out]]}
      [] h.fn = "R_value_to_k" ->
            {[fn |-> "k_to_R_value",
              args |-> With(Without(h.args, "R_value"), "k", h.out)],
             [fn |-> "R_value_to_k",
              args |-> [R_value |-> h.args.R_value,
                        SI |-> ~Bind(h.fn, h.args).SI]]}
      [] h.fn = "k_to_R_value" ->
            {[fn |-> "R_value_to_k",
              args |-> With(Without(h.args, "k"), "R_value", h.out)]}
      [] h.fn = "R_cylinder" ->
            {[fn |-> "R_cylinder",
              args |-> [h.args EXCEPT !.Di = h.args.Do, !.Do = h.args.Di]]}

(***************************************************************************)
(* The state: the module's namespace, which every thread shares; each      *)
(* thread's stack of frames; each thread's calls so far, with their        *)
(* arguments as passed and their outcomes (None while the call runs); and  *)
(* what the C library's log has returned so far, which it returns again    *)
(* when it gets the same argument again.                                   *)
(***************************************************************************)
VARIABLES globals, stack, hist, libm

vars == <<globals, stack, hist, libm>>

Init ==
    /\ globals = ModuleGlobals
    /\ stack = [th \in Threads |-> <<>>]
    /\ hist = [th \in Threads |-> <<>>]
    /\ libm = NoLogs

Invoke(th, c) ==
    /\ stack' = [stack EXCEPT ![th] = <<NewFrame(c.fn, c.args)>>]
    /\ hist' = [hist EXCEPT
                   ![th] = Append(@, [fn |-> c.fn, args |-> c.args,
                                      out |-> None])]
    /\ UNCHANGED <<globals, libm>>

\* Thread th makes its first call, one of cs
Call(th, cs) ==
    /\ stack[th] = <<>>
    /\ hist[th] = <<>>
    /\ \E c \in cs : Invoke(th, c)

\* Thread th goes on from the call it has completed
FollowUp(th) ==
    /\ stack[th] = <<>>
    /\ hist[th] # <<>>
    /\ Len(hist[th]) < MaxChain
    /\ IsFloat(hist[th][Len(hist[th])].out)
    /\ \E c \in FollowUps(hist[th][Len(hist[th])]) : Invoke(th, c)

\* Thread th has run a statement; s is what ExecStep gives
Commit(th, s) ==
    /\ globals' = s.g
    /\ libm' = s.lib
    /\ stack' = [stack EXCEPT ![th] = s.stack]
    /\ hist' = IF s.stack = <<>>
               THEN [hist EXCEPT ![th][Len(hist[th])].out = s.out]
               ELSE hist

\* Thread th runs the statement its innermost frame is at; a logarithm the
\* library has not been asked for before comes back rounded down or up
Here(f) == Roundings(f, Functions[f.fn].code[f.pc])

Step(th) ==
    \E dir \in Here(stack[th][Len(stack[th])]) :
        Commit(th, ExecStep(globals, stack[th], libm, dir))

\* Thread th is in a call, its innermost frame in fn
Running(th, fn) ==
    /\ stack[th] # <<>>
    /\ stack[th][Len(stack[th])].fn = fn

\* One action for each function: thread th runs the statement its frame in
\* that function is at
R_to_k(th) ==
    /\ Running(th, "R_to_k")
    /\ Step(th)

k_to_R(th) ==
    /\ Running(th, "k_to_R")
    /\ Step(th)

k_to_thermal_resistivity(th) ==
    /\ Running(th, "k_to_thermal_resistivity")
    /\ Step(th)

thermal_resistivity_to_k(th) ==
    /\ Running(th, "thermal_resistivity_to_k")
    /\ Step(th)

R_value_to_k(th) ==
    /\ Running(th, "R_value_to_k")
    /\ Step(th)

k_to_R_value(th) ==
    /\ Running(th, "k_to_R_value")
    /\ Step(th)

R_cylinder(th) ==
    /\ Running(th, "R_cylinder")
    /\ Step(th)

\* One caller
Next ==
    \/ Call(1, Calls)
    \/ FollowUp(1)
    \/ R_to_k(1)
    \/ k_to_R(1)
    \/ k_to_thermal_resistivity(1)
    \/ thermal_resistivity_to_k(1)
    \/ R_value_to_k(1)
    \/ k_to_R_value(1)
    \/ R_cylinder(1)

Spec == Init /\ [][Next]_vars

\* NThreads threads, one call each, their statements interleaved at will
NextThreads ==
    \E th \in Threads :
        \/ Call(th, ThreadCalls)
        \/ R_to_k(th)
        \/ k_to_R(th)
        \/ k_to_thermal_resistivity(th)
        \/ thermal_resistivity_to_k(th)
        \/ R_value_to_k(th)
        \/ k_to_R_value(th)
        \/ R_cylinder(th)

SpecThreads == Init /\ [][NextThreads]_vars

(***************************************************************************)
(* What the claims speak of: the completed calls, and the pairs of a       *)
(* completed call and the completed call its caller went on to.            *)
(***************************************************************************)
Done ==
    UNION {{hist[th][i] : i \in {j \in DOMAIN hist[th] :
                                    hist[th][j].out # None}} :
           th \in Threads}

Links ==
    UNION {{<<hist[th][i], hist[th][i + 1]>> :
              i \in {j \in 1..(Len(hist[th]) - 1) :
                        hist[th][j + 1].out # None}} :
           th \in Threads}

\* The value the function of call h sees for its parameter n
Param(h, n) == Bind(h.fn, h.args)[n]

\* x > 0, and x is a normal float (not subnormal, not an infinity)
Positive(x) == IsFloat(x) /\ IsFinite(x) /\ x.sign = 0 /\ ~IsZero(x)

PositiveNormal(x) == IsFloat(x) /\ IsNormal(x) /\ x.sign = 0

\* The call h[2] is the inverse function inv of h[1]'s function fn, on the
\* value h[1] returned as parameter p and with h[1]'s other arguments
Inverts(l, fn, inv, p) ==
    /\ l[1].fn = fn
    /\ l[2].fn = inv
    /\ IsFloat(l[1].out)
    /\ l[2].args[p] = l[1].out
    /\ \A n \in DOMAIN l[2].args \ {p} :
           n \in DOMAIN l[1].args /\ l[2].args[n] = l[1].args[n]

----------------------------------------------------------------------------
\* C1 (as the code has it): for R, t, A > 0 with no overflow or underflow on
\* the way, k_to_R(R_to_k(R, t, A), t, A) is within 4 floats of R, and
\* R_to_k(k_to_R(k, t, A), t, A) is within 4 floats of k.
C1_RoundTripWithin4Ulps ==
    \A l \in Links :
        /\ ( /\ Inverts(l, "R_to_k", "k_to_R", "k")
             /\ PositiveNormal(Param(l[1], "R"))
             /\ PositiveNormal(Param(l[1], "t"))
             /\ PositiveNormal(Param(l[1], "A"))
             /\ PositiveNormal(FMul(Param(l[1], "A"), Param(l[1], "R")))
             /\ PositiveNormal(l[1].out)
             /\ PositiveNormal(FMul(l[1].out, Param(l[1], "A")))
             /\ PositiveNormal(l[2].out) )
           => WithinUlps(l[2].out, Param(l[1], "R"), 4)
        /\ ( /\ Inverts(l, "k_to_R", "R_to_k", "R")
             /\ PositiveNormal(Param(l[1], "k"))
             /\ PositiveNormal(Param(l[1], "t"))
             /\ PositiveNormal(Param(l[1], "A"))
             /\ PositiveNormal(FMul(Param(l[1], "k"), Param(l[1], "A")))
             /\ PositiveNormal(l[1].out)
             /\ PositiveNormal(FMul(Param(l[1], "A"), l[1].out))
             /\ PositiveNormal(l[2].out) )
           => WithinUlps(l[2].out, Param(l[1], "k"), 4)

\* C1 as the spec has it: the round trip gives R (and k) back exactly.
C1_RoundTripExact ==
    \A l \in Links :
        /\ ( /\ Inverts(l, "R_to_k", "k_to_R", "k")
             /\ Positive(Param(l[1], "R"))
             /\ Positive(Param(l[1], "t"))
             /\ Positive(Param(l[1], "A")) )
           => l[2].out = Param(l[1], "R")
        /\ ( /\ Inverts(l, "k_to_R", "R_to_k", "R")
             /\ Positive(Param(l[1], "k"))
             /\ Positive(Param(l[1], "t"))
             /\ Positive(Param(l[1], "A")) )
           => l[2].out = Param(l[1], "k")

\* R_to_k(0.1, 0.1, 0.1) has been fed to k_to_R(., 0.1, 0.1), which came
\* back with a float next to 0.1
C1_Witness ==
    \E l \in Links :
        /\ Inverts(l, "R_to_k", "k_to_R", "k")
        /\ l[1].args = [R |-> Tenth(1), t |-> Tenth(1), A |-> Tenth(1)]
        /\ l[2].out # Tenth(1)
        /\ WithinUlps(l[2].out, Tenth(1), 1)

----------------------------------------------------------------------------
\* No step of R_value_to_k(x, SI)'s formula underflows: the least of its
\* intermediate values, (x * foot^2) * degree_Fahrenheit in Imperial units,
\* is a normal float
FormulaInRange(x, SI) ==
    SI \/ PositiveNormal(FMul(FMul(x, FMul(foot, foot)), degree_Fahrenheit))

\* C2 (as the code has it): for x > 0 with no overflow or underflow on the
\* way, k_to_R_value(R_value_to_k(x, SI), SI) is within 4 floats of x when
\* SI is true and within 12 floats of x when SI is false.
C2_RValueRoundTripWithinUlps ==
    \A l \in Links :
        ( /\ Inverts(l, "R_value_to_k", "k_to_R_value", "k")
          /\ PositiveNormal(Param(l[1], "R_value"))
          /\ FormulaInRange(Param(l[1], "R_value"), Param(l[1], "SI"))
          /\ PositiveNormal(l[1].out)
          /\ PositiveNormal(FDiv(FromInt(1), l[1].out))
          /\ PositiveNormal(l[2].out) )
        => /\ Param(l[2], "SI") = Param(l[1], "SI")
           /\ WithinUlps(l[2].out, Param(l[1], "R_value"),
                         IF Param(l[1], "SI") THEN 4 ELSE 12)

\* C2 as the spec has it: the round trip gives x back exactly.
C2_RValueRoundTripExact ==
    \A l \in Links :
        ( /\ Inverts(l, "R_value_to_k", "k_to_R_value", "k")
          /\ Positive(Param(l[1], "R_value")) )
        => l[2].out = Param(l[1], "R_value")

\* The docstring's k_to_R_value(R_value_to_k(0.12)) has been run and has
\* returned 0.11999999999999998
C2_Witness ==
    \E l \in Links :
        /\ Inverts(l, "R_value_to_k", "k_to_R_value", "k")
        /\ l[1].args = [R_value |-> Thousandth(120)]
        /\ l[2].out = Literal(<<1, 1999, 9999, 9999, 9998>>, 17)

----------------------------------------------------------------------------
\* C3 (as the code has it): for k > 0 with no overflow or underflow on the
\* way, thermal_resistivity_to_k(k_to_thermal_resistivity(k)) is k or a
\* float next to k.
C3_ReciprocalRoundTripWithin1Ulp ==
    \A l \in Links :
        ( /\ Inverts(l, "k_to_thermal_resistivity",
                     "thermal_resistivity_to_k", "r")
          /\ PositiveNormal(Param(l[1], "k"))
          /\ PositiveNormal(l[1].out)
          /\ PositiveNormal(l[2].out) )
        => WithinUlps(l[2].out, Param(l[1], "k"), 1)

\* C3 as the spec has it: the round trip gives k back exactly.
C3_ReciprocalRoundTripExact ==
    \A l \in Links :
        ( /\ Inverts(l, "k_to_thermal_resistivity",
                     "thermal_resistivity_to_k", "r")
          /\ Positive(Param(l[1], "k")) )
        => l[2].out = Param(l[1], "k")

\* k_to_thermal_resistivity(0.9) has been fed to thermal_resistivity_to_k,
\* which came back with a float that is not 0.9
C3_Witness ==
    \E l \in Links :
        /\ Inverts(l, "k_to_thermal_resistivity",
                   "thermal_resistivity_to_k", "r")
        /\ l[1].args = [k |-> Tenth(9)]
        /\ IsFloat(l[2].out)
        /\ l[2].out # Tenth(9)

----------------------------------------------------------------------------
\* The literal 5.678263341113488
RatioAtOne == Literal(<<5678, 2633, 4111, 3488>>, 15)

\* The two calls of l are R_value_to_k on the same R-value, one in each
\* system of units
BothSystems(l) ==
    /\ l[1].fn = "R_value_to_k"
    /\ l[2].fn = "R_value_to_k"
    /\ Param(l[2], "R_value") = Param(l[1], "R_value")
    /\ Param(l[2], "SI") # Param(l[1], "SI")
    /\ IsFloat(l[1].out)
    /\ IsFloat(l[2].out)

\* R_value_to_k(x, SI=False) / R_value_to_k(x, SI=True) from the two calls
Ratio(l) ==
    IF Param(l[1], "SI") THEN PyTrueDiv(l[2].out, l[1].out)
    ELSE PyTrueDiv(l[1].out, l[2].out)

\* C4 (as the code has it): for x > 0 with no overflow or underflow on the
\* way, R_value_to_k(x, SI=False) / R_value_to_k(x, SI=True) is within 16
\* floats of 5.678263341113488, and is that float at x = 1.
C4_RatioWithin16Ulps ==
    \A l \in Links :
        ( /\ BothSystems(l)
          /\ PositiveNormal(Param(l[1], "R_value"))
          /\ FormulaInRange(Param(l[1], "R_value"), FALSE)
          /\ PositiveNormal(l[1].out)
          /\ PositiveNormal(l[2].out) )
        => /\ WithinUlps(Ratio(l), RatioAtOne, 16)
           /\ Param(l[1], "R_value") = FromInt(1) => Ratio(l) = RatioAtOne

\* C4 as the spec has it: the ratio is the same constant for every x > 0,
\* the one it is at x = 1.
C4_RatioConstant ==
    \A l \in Links :
        (BothSystems(l) /\ Positive(Param(l[1], "R_value")))
        => Ratio(l) = RatioAtOne

\* R_value_to_k(0.1) has been run in both systems of units and the ratio
\* is a float that is not 5.678263341113488
C4_Witness ==
    \E l \in Links :
        /\ BothSystems(l)
        /\ Param(l[1], "R_value") = Tenth(1)
        /\ IsFloat(Ratio(l))
        /\ Ratio(l) # RatioAtOne

----------------------------------------------------------------------------
\* What `1/r` comes to for the r that R_value_to_k's formula gives R-value
\* x: x / 0.0254 in SI, ((((x * foot^2) * degree_Fahrenheit) * hour) / Btu)
\* / inch otherwise
InverseOfResistivity(x, SI) ==
    PyTrueDiv(FromInt(1),
              IF SI THEN FDiv(x, Literal(<<254>>, 4))
              ELSE FDiv(FDiv(FMul(FMul(FMul(x, FMul(foot, foot)),
                                       degree_Fahrenheit),
                                  hour),
                             Btu),
                        inch))

\* k * x for an x between 6.933465 and 6.933475 is 1 for a k > 0
InverseOfAbout6_93347(k, x) ==
    /\ FLe(FMul(Literal(<<693, 3465>>, 6), x), FDiv(FromInt(1), k))
    /\ FLe(FDiv(FromInt(1), k), FMul(Literal(<<693, 3475>>, 6), x))

\* C5: R_value_to_k(R_value, SI) comes to 1/r for r = R_value / inch when SI
\* is true and r = R_value * foot^2 * degree_Fahrenheit * hour / Btu / inch
\* when SI is false, each operation of the formula rounded as a float; inch
\* is 0.0254; in Imperial units the result is the inverse of the R-value
\* times 6.93347, to the digits given; and SI is true when it is omitted.
C5_RValueToKFormula ==
    \A h \in Done :
        h.fn = "R_value_to_k" =>
            /\ "SI" \notin DOMAIN h.args => Param(h, "SI") = TRUE
            /\ h.out = InverseOfResistivity(h.args.R_value,
                                            "SI" \notin DOMAIN h.args
                                                \/ Param(h, "SI"))
            /\ (~Param(h, "SI") /\ Positive(h.args.R_value))
                   => InverseOfAbout6_93347(h.out, h.args.R_value)

\* The docstring's R_value_to_k(0.12) has returned 0.2116666666666667 and
\* R_value_to_k(0.12, SI=False) after it 1.2018990738690218
C5_Witness ==
    \E l \in Links :
        /\ l[1].fn = "R_value_to_k"
        /\ l[1].args = [R_value |-> Thousandth(120)]
        /\ l[1].out = Literal(<<2116, 6666, 6666, 6667>>, 16)
        /\ l[2].fn = "R_value_to_k"
        /\ l[2].args = [R_value |-> Thousandth(120), SI |-> FALSE]
        /\ l[2].out = Literal(<<1, 2018, 9907, 3869, 218>>, 16)

----------------------------------------------------------------------------
\* C6: R_to_k(R, t, A) comes to t / (A * R) and k_to_R(k, t, A) to
\* t / (k * A), the product and the quotient each rounded as a float; with A
\* omitted they come to t / R and t / k; R_to_k(R=0.05, t=0.025) is 0.5 and
\* k_to_R(k=0.5, t=0.025) is 0.05.
C6_PlaneWallFormulas ==
    \A h \in Done :
        /\ h.fn = "R_to_k" =>
               /\ h.out = PyTrueDiv(h.args.t,
                                    FMul(IF "A" \in DOMAIN h.args
                                         THEN h.args.A ELSE FromInt(1),
                                         h.args.R))
               /\ "A" \notin DOMAIN h.args
                      => h.out = PyTrueDiv(h.args.t, h.args.R)
               /\ h.args = [R |-> Thousandth(50), t |-> Thousandth(25)]
                      => h.out = Tenth(5)
        /\ h.fn = "k_to_R" =>
               /\ h.out = PyTrueDiv(h.args.t,
                                    FMul(h.args.k,
                                         IF "A" \in DOMAIN h.args
                                         THEN h.args.A ELSE FromInt(1)))
               /\ "A" \notin DOMAIN h.args
                      => h.out = PyTrueDiv(h.args.t, h.args.k)
               /\ h.args = [k |-> Tenth(5), t |-> Thousandth(25)]
                      => h.out = Thousandth(50)

\* The docstrings' examples have been run one after the other:
\* R_to_k(R=0.05, t=0.025) returned 0.5 and k_to_R(k=0.5, t=0.025)
\* returned 0.05
C6_Witness ==
    \E l \in Links :
        /\ l[1].fn = "R_to_k"
        /\ l[1].args = [R |-> Thousandth(50), t |-> Thousandth(25)]
        /\ l[1].out = Tenth(5)
        /\ l[2].fn = "k_to_R"
        /\ l[2].args = [k |-> Tenth(5), t |-> Thousandth(25)]
        /\ l[2].out = Thousandth(50)

----------------------------------------------------------------------------
\* The call h is one of those C7 lists: its denominator is zero
ZeroDenominator(h) ==
    CASE h.fn = "R_to_k" -> IsZero(Param(h, "R")) \/ IsZero(Param(h, "A"))
      [] h.fn = "k_to_R" -> IsZero(Param(h, "k")) \/ IsZero(Param(h, "A"))
      [] h.fn = "k_to_thermal_resistivity" -> IsZero(Param(h, "k"))
      [] h.fn = "thermal_resistivity_to_k" -> IsZero(Param(h, "r"))
      [] h.fn = "R_value_to_k" -> IsZero(Param(h, "R_value"))
      [] h.fn = "k_to_R_value" -> IsZero(Param(h, "k"))
      [] OTHER -> FALSE

\* C7 (as the code has it): a conversion called with a zero denominator
\* returns nothing; the call ends with ZeroDivisionError.
C7_ZeroDenominatorRaises ==
    \A h \in Done :
        ZeroDenominator(h) => h.out = Raise("ZeroDivisionError")

\* C7 as the spec has it: such a call returns an infinity or a NaN.
C7_ZeroDenominatorNonFinite ==
    \A h \in Done :
        ZeroDenominator(h) => IsFloat(h.out) /\ ~IsFinite(h.out)

\* k_to_R_value(0.0, SI=False) has ended, with the ZeroDivisionError of the
\* k_to_thermal_resistivity it calls
C7_Witness ==
    \E h \in Done :
        /\ h.fn = "k_to_R_value"
        /\ h.args = [k |-> Tenth(0), SI |-> FALSE]
        /\ IsRaise(h.out)

----------------------------------------------------------------------------
\* The call h is R_cylinder with Di, Do, k, L > 0
CylinderCall(h) ==
    /\ h.fn = "R_cylinder"
    /\ Positive(h.args.Di) /\ Positive(h.args.Do)
    /\ Positive(h.args.k) /\ Positive(h.args.L)

\* C8 (as the code has it): R_cylinder with Do == Di returns nothing; the
\* division by log(Do/Di) = 0.0 ends the call with ZeroDivisionError.
C8_EqualDiametersRaise ==
    \A h \in Done :
        (CylinderCall(h) /\ h.args.Do = h.args.Di)
        => /\ \A dir \in LogRoundings :
                  PyLog(PyTrueDiv(h.args.Do, h.args.Di), libm, dir) = Zero(0)
           /\ h.out = Raise("ZeroDivisionError")

\* C8 as the spec has it: such a call returns an infinity or a NaN.
C8_EqualDiametersNonFinite ==
    \A h \in Done :
        (CylinderCall(h) /\ h.args.Do = h.args.Di)
        => IsFloat(h.out) /\ ~IsFinite(h.out)

\* R_cylinder(0.9, 0.9, 20, 10) has ended with an exception
C8_Witness ==
    \E h \in Done :
        /\ CylinderCall(h)
        /\ h.args.Di = Tenth(9) /\ h.args.Do = Tenth(9)
        /\ IsRaise(h.out)

----------------------------------------------------------------------------
\* The two calls of l are R_cylinder on the same k and L > 0 and on the
\* same two diameters > 0, inner and outer exchanged
Swapped(l) ==
    /\ CylinderCall(l[1])
    /\ CylinderCall(l[2])
    /\ l[2].args.Di = l[1].args.Do
    /\ l[2].args.Do = l[1].args.Di
    /\ l[2].args.k = l[1].args.k
    /\ l[2].args.L = l[1].args.L

\* No step of the call h of R_cylinder, which has ended, overflows or
\* underflows: Do/Di, k*2*pi*L, hA and 1/hA are normal floats where they
\* are floats
CylinderInRange(h) ==
    LET q == FDiv(h.args.Do, h.args.Di)
        n == FMul(FMul(FMul(h.args.k, FromInt(2)), pi), h.args.L)
        hA == PyTrueDiv(n, PyLog(q, libm, "down"))
    IN  /\ IsNormal(q)
        /\ IsNormal(n)
        /\ IsFloat(hA) => IsNormal(hA)
        /\ IsFloat(h.out) => IsNormal(h.out)

\* C10 (as the code has it): for Di, Do, k, L > 0 with no overflow or
\* underflow on the way, R_cylinder returns a float > 0 exactly when
\* Do > Di, and a finite float < 0 when Do < Di; R_cylinder with Di and Do
\* exchanged returns a float of the opposite sign.
C10_SignFollowsDiameters ==
    /\ \A h \in Done :
           (CylinderCall(h) /\ CylinderInRange(h)) =>
               /\ Positive(h.out) <=> FLt(h.args.Di, h.args.Do)
               /\ FLt(h.args.Do, h.args.Di)
                      => /\ IsFloat(h.out) /\ IsFinite(h.out)
                         /\ ~IsZero(h.out) /\ h.out.sign = 1
    /\ \A l \in Links :
           ( /\ Swapped(l)
             /\ CylinderInRange(l[1])
             /\ CylinderInRange(l[2])
             /\ IsFloat(l[1].out) )
           => /\ IsFloat(l[2].out) /\ IsFinite(l[2].out)
              /\ ~IsZero(l[2].out)
              /\ l[2].out.sign = 1 - l[1].out.sign

\* C10 as the spec has it: the signs as above, and R_cylinder with Di and Do
\* exchanged returns the negation of the result.
C10_SwapNegates ==
    \A l \in Links :
        (Swapped(l) /\ IsFloat(l[1].out)) => l[2].out = FNeg(l[1].out)

\* The docstring's R_cylinder(0.9, 1., 20, 10) has returned
\* 8.38432343682705e-05 and R_cylinder(1., 0.9, 20, 10) after it a float
\* below zero that is not -8.38432343682705e-05
C10_Witness ==
    \E l \in Links :
        /\ Swapped(l)
        /\ l[1].args = [Di |-> Tenth(9), Do |-> FromInt(1),
                        k |-> FromInt(20), L |-> FromInt(10)]
        /\ l[1].out = Literal(<<838, 4323, 4368, 2705>>, 19)
        /\ IsFloat(l[2].out)
        /\ l[2].out.sign = 1
        /\ l[2].out # FNeg(l[1].out)

----------------------------------------------------------------------------
\* What each call a thread makes comes to when it runs alone, start to
\* end, on a build whose log rounds down and on one whose log rounds up:
\* the outcome, and what the library's log has returned
Alone == [c \in ThreadCalls |-> [dir \in LogRoundings |->
                                    RunAlone(c, NoLogs, dir)]]

\* The library's log has returned what lib holds
OnThisBuild(lib) ==
    \A x \in DOMAIN lib : x \in DOMAIN libm /\ libm[x] = lib[x]

\* C9: however the steps of the threads' calls interleave, no step changes
\* the module's names, a frame holds only the frame's own names, and every
\* call that has ended has come to what the same call comes to alone (on
\* the same build: with the same results of the library's log).
C9_InterleavingIsInvisible ==
    /\ globals = ModuleGlobals
    /\ \A th \in Threads :
           /\ \A i \in DOMAIN stack[th] :
                  DOMAIN stack[th][i].loc \cap DOMAIN globals = {}
           /\ \A i \in DOMAIN hist[th] :
                  hist[th][i].out # None
                      => \E dir \in LogRoundings :
                             LET a == Alone[[fn |-> hist[th][i].fn,
                                             args |-> hist[th][i].args]][dir]
                             IN  OnThisBuild(a.lib) /\ hist[th][i].out = a.out

\* One thread's R_value_to_k(0.12) has returned 0.2116666666666667 while
\* another thread is inside the k_to_thermal_resistivity that its
\* k_to_R_value called
C9_Witness ==
    \E th \in Threads, other \in Threads :
        /\ th # other
        /\ Len(hist[th]) = 1
        /\ hist[th][1].fn = "R_value_to_k"
        /\ hist[th][1].out = Literal(<<2116, 6666, 6666, 6667>>, 16)
        /\ Len(stack[other]) = 2
        /\ stack[other][1].fn = "k_to_R_value"
        /\ stack[other][2].fn = "k_to_thermal_resistivity"

====
